---- MODULE Spec2Model ----
(***************************************************************************)
(* write-assist: the draft -> edit -> judge pipeline (WritingPipeline.run), *)
(* the fan-out runner (BaseAgent.run_parallel) and the Borda aggregation    *)
(* (_calculate_consensus, _get_recommended_edit).                           *)
(*                                                                          *)
(* A Python dict is modelled as the sequence of its <<key, value>> items in *)
(* insertion order, since the code depends on that order (list(d.values()), *)
(* Counter.most_common, next(iter(d.values()))).                            *)
(***************************************************************************)
EXTENDS Integers, Sequences, FiniteSets, TLC

VARIABLES
    pc,              \* where WritingPipeline.run (or a lone run_parallel) stands
    save_artifacts,  \* WritingPipeline.save_artifacts
    providers,       \* the providers list handed to run_parallel
    calls,           \* calls[phase][provider]: the run_one task of that agent
    phase_results,   \* drafting_phase / editing_phase / judging_phase
    editor_input,    \* EditorInput.drafts
    judge_input,     \* JudgeInput.integrated_drafts
    result,          \* <<>> until run returns, then <<PipelineResult>>
    exception,       \* class name of the exception that escaped, "" if none
    artifacts,       \* the ArtifactStore methods called so far, in order
    judge_results,   \* argument of a lone _calculate_consensus call
    consensus,       \* <<>> until that call returns, then <<its list>>
    cache_enabled,   \* is_cache_enabled(): WRITE_ASSIST_NO_CACHE is not set
    cache,           \* the diskcache store: cache[key] is a text or Absent
    provider,        \* the provider argument of the current BaseAgent.run
    max_retries,     \* the max_retries argument of the current BaseAgent.run
    attempt_number,  \* tenacity's retry_state.attempt_number
    requests,        \* requests the current call has sent to the backend
    outcome,         \* exception class of the last failed attempt, "" if none
    validated,       \* a response of the current call has parsed and validated
    mapping,         \* a ProviderMapping: its fields and its _reverse dict
    text,            \* the text handed to obfuscate_provider_in_text
    obfuscated,      \* <<>> until it returns, then <<its result>>
    revealed,        \* <<>> until reveal_provider_in_text returns
    on_progress,     \* run's on_progress argument: TRUE for a callback, FALSE for None
    notifications,   \* the <<phase, status>> pairs the callback has received
    completed,       \* completed[phase]: the providers in the order their tasks settled
    agent,           \* BaseAgent's _last_raw_response, _last_provider, _failed_raw_responses
    tasks,           \* tasks[provider]: the run_one task of a fan-out, attempt by attempt
    inputs,          \* the DrafterInput shared by the drafter's tasks
    research,        \* research[provider]: that task's _research_loop and prompt
    recommended_md   \* <<>> until final/recommended.md is written, then <<its content>>

callvars == <<cache_enabled, cache, provider, max_retries, attempt_number,
              requests, outcome, validated>>

obfvars == <<mapping, text, obfuscated, revealed>>

notifyvars == <<on_progress, notifications>>

agentvars == <<agent, tasks>>

researchvars == <<inputs, research>>

restvars == <<notifyvars, completed, agentvars, researchvars, recommended_md>>

vars == <<pc, save_artifacts, providers, calls, phase_results, editor_input,
          judge_input, result, exception, artifacts, judge_results, consensus,
          callvars, obfvars, restvars>>

-----------------------------------------------------------------------------
(* Providers, phases, values                                                *)

Provider == {"claude", "gemini", "chatgpt"}

DefaultProviders == <<"claude", "gemini", "chatgpt">>

Phase == {"drafting", "editing", "judging"}

\* Exception classes a structured call can raise.
LLMError == {"AuthenticationError", "RateLimitError", "APIError"}

ValueError == {"ValueError"}

ExceptionClasses == LLMError \cup ValueError \cup {"TimeoutError"}

Messages == {"API key not found", "bad response"}

\* Results are records of one shape; rankings is <<>> except for a JudgeResult.
None == [kind |-> "none", provider |-> "", rankings |-> <<>>]

DraftResult(p) == [kind |-> "draft", provider |-> p, rankings |-> <<>>]

EditResult(p) == [kind |-> "edit", provider |-> p, rankings |-> <<>>]

\* rankings = <<first_place, second_place, third_place>>.draft_source
JudgeResult(p, r) == [kind |-> "judge", provider |-> p, rankings |-> r]

\* RankingEntry.draft_source is any Provider; nothing makes the three differ.
Rankings == [1..3 -> Provider]

\* The rankings the pipeline specification draws from: the six orders of the
\* three providers, and a judge naming one provider in all three places.
RankingChoices ==
    {r \in Rankings : Cardinality({r[1], r[2], r[3]}) \in {1, 3}}

NoError == [provider |-> "", error_type |-> "", message |-> ""]

\* What BaseAgent.run did for one provider: returned a value or raised.
Returned(v) == [ok |-> TRUE, value |-> v, cls |-> "", msg |-> ""]

Raised(c, m) == [ok |-> FALSE, value |-> None, cls |-> c, msg |-> m]

Idle == [st |-> "idle", out |-> Returned(None)]

Running == [st |-> "running", out |-> Returned(None)]

Settled(out) == [st |-> "settled", out |-> out]

\* Values a successful call of the phase's agent can return for provider p
\* (parse_json_response force-sets metadata.provider to p).
Values(ph, p, rs) ==
    CASE ph = "drafting" -> {DraftResult(p)}
      [] ph = "editing"  -> {EditResult(p)}
      [] ph = "judging"  -> {JudgeResult(p, r) : r \in rs}

Outcomes(ph, p, rs, cs, ms) ==
    {Returned(v) : v \in Values(ph, p, rs)}
        \cup {Raised(c, m) : c \in cs, m \in ms}

-----------------------------------------------------------------------------
(* dict helpers                                                             *)

Keys(d) == {d[i][1] : i \in DOMAIN d}

KeyList(d) == [i \in DOMAIN d |-> d[i][1]]

ValueList(d) == [i \in DOMAIN d |-> d[i][2]]

Has(d, k) == \E i \in DOMAIN d : d[i][1] = k

Get(d, k) == d[CHOOSE i \in DOMAIN d : d[i][1] = k][2]

\* d[k] = v: a new key goes last, an existing key keeps its place.
Put(d, k, v) ==
    IF Has(d, k)
    THEN [i \in DOMAIN d |-> IF d[i][1] = k THEN <<k, v>> ELSE d[i]]
    ELSE Append(d, <<k, v>>)

Range(s) == {s[i] : i \in DOMAIN s}

-----------------------------------------------------------------------------
(* BaseAgent.run_parallel                                                   *)

\* run_one without its last clause, except Exception.
CatchesWithoutExceptException(cls) == cls \in LLMError \cup ValueError

\* The except clauses of run_one: LLMError, ValueError, Exception.
Catches(cls) == cls \in LLMError \cup ValueError \cup ExceptionClasses

ErrorType(cls) ==
    IF cls \in LLMError THEN cls
    ELSE IF cls \in ValueError THEN "ValidationError"
    ELSE cls

AgentError(p, out) ==
    [provider |-> p, error_type |-> ErrorType(out.cls), message |-> out.msg]

\* run_one(provider): the tuple it returns, or the exception it lets through.
RunOne(p, out) ==
    IF out.ok
    THEN [provider |-> p, is_error |-> FALSE, value |-> out.value,
          error |-> NoError, propagates |-> FALSE]
    ELSE IF Catches(out.cls)
    THEN [provider |-> p, is_error |-> TRUE, value |-> None,
          error |-> AgentError(p, out), propagates |-> FALSE]
    ELSE [provider |-> p, is_error |-> FALSE, value |-> None,
          error |-> NoError, propagates |-> TRUE]

\* A wait that returns at the first task to finish.
GatheredFirstCompleted(cs, ps) == \E i \in DOMAIN ps : cs[ps[i]].st = "settled"

\* asyncio.gather(*[run_one(p) for p in providers]) has resolved: every
\* task it launched has settled.
Gathered(cs, ps) == \A i \in DOMAIN ps : cs[ps[i]].st = "settled"

\* gather re-raises what a task let through.
GatherRaises(cs, ps) ==
    \E i \in DOMAIN ps :
        cs[ps[i]].st = "settled" /\ RunOne(ps[i], cs[ps[i]].out).propagates

\* The list ordered as the tasks finished, as a loop over
\* asyncio.as_completed would build it.
ResultsAsCompleted(cs, ps) ==
    LET order   == IF pc \in Phase THEN completed[pc] ELSE <<>>
        settled == SelectSeq(order, LAMBDA p : p \in Range(ps)
                                               /\ cs[p].st = "settled")
    IN  [i \in DOMAIN settled |-> RunOne(settled[i], cs[settled[i]].out)]

\* results: one entry per requested provider that has settled, in the order
\* of the providers list.
Results(cs, ps) ==
    LET settled == SelectSeq(ps, LAMBDA p : cs[p].st = "settled")
    IN  [i \in DOMAIN settled |-> RunOne(settled[i], cs[settled[i]].out)]

\* The partition loop without its isinstance test: every result is stored
\* as a success.
RECURSIVE SuccessfulWithoutIsinstance(_)
SuccessfulWithoutIsinstance(results) ==
    IF results = <<>> THEN <<>>
    ELSE LET n    == Len(results)
             rest == SuccessfulWithoutIsinstance(SubSeq(results, 1, n - 1))
             r    == results[n]
         IN  Put(rest, r.provider, r.value)

RECURSIVE Successful(_)
Successful(results) ==
    IF results = <<>> THEN <<>>
    ELSE LET n    == Len(results)
             rest == Successful(SubSeq(results, 1, n - 1))
             r    == results[n]
         IN  IF r.is_error THEN rest ELSE Put(rest, r.provider, r.value)

RECURSIVE Failed(_)
Failed(results) ==
    IF results = <<>> THEN <<>>
    ELSE LET n    == Len(results)
             rest == Failed(SubSeq(results, 1, n - 1))
             r    == results[n]
         IN  IF r.is_error THEN Put(rest, r.provider, r.error) ELSE rest

ParallelRunResult(cs, ps) ==
    [successful |-> Successful(Results(cs, ps)),
     failed     |-> Failed(Results(cs, ps))]

\* gather creates one task per entry of providers.
Launch(ps) ==
    [p \in Provider |-> IF p \in Range(ps) THEN Running ELSE Idle]

NotLaunched == [p \in Provider |-> Idle]

\* One provider's structured call ends: BaseAgent.run returns or raises.
RunOneSettle(ph, p, out) ==
    /\ calls[ph][p].st = "running"
    /\ calls' = [calls EXCEPT ![ph][p] = Settled(out)]
    /\ UNCHANGED <<pc, save_artifacts, providers, phase_results, editor_input,
                   judge_input, result, exception, artifacts, judge_results,
                   consensus>>
    /\ UNCHANGED <<callvars, obfvars, restvars>>

-----------------------------------------------------------------------------
(* PhaseResult, PipelineResult                                              *)

\* A phase output that forgets its failures.
PhaseResultWithoutFailed(successful, failed) ==
    [successful |-> successful, failed |-> <<>>]

PhaseResult(successful, failed) ==
    [successful |-> successful, failed |-> failed]

EmptyPhase == PhaseResult(<<>>, <<>>)

success_count(phase) == Len(phase.successful)

PipelineResult(dp, ep, jp, dr, er, jr, cons, rec) ==
    [drafting_phase |-> dp, editing_phase |-> ep, judging_phase |-> jp,
     draft_results |-> dr, edit_results |-> er, judge_results |-> jr,
     consensus_ranking |-> cons, recommended_edit |-> rec]

\* A result counted usable only when no call of any phase failed.
UsableOnlyIfNoneFailed(r) ==
    /\ r.drafting_phase.failed = <<>> /\ success_count(r.drafting_phase) >= 1
    /\ r.editing_phase.failed = <<>> /\ success_count(r.editing_phase) >= 1
    /\ r.judging_phase.failed = <<>> /\ success_count(r.judging_phase) >= 1

\* PipelineResult.has_usable_result
has_usable_result(r) ==
    /\ success_count(r.drafting_phase) >= 1
    /\ success_count(r.editing_phase) >= 1
    /\ success_count(r.judging_phase) >= 1

-----------------------------------------------------------------------------
(* ArtifactStore                                                            *)

\* The methods class ArtifactStore defines.
ArtifactStoreMethods ==
    {"initialize", "save_input", "save_drafts", "save_edits",
     "save_judgments", "save_final", "finalize", "delete"}

\* artifact_store.m(...) for each m of ms in turn, appended to the log; the
\* attribute lookup of a method the class does not define raises
\* AttributeError and the remaining calls are not made.
RECURSIVE Perform(_, _)
Perform(log, ms) ==
    IF ms = <<>> THEN [log |-> log, raised |-> ""]
    ELSE IF Head(ms) \notin ArtifactStoreMethods
    THEN [log |-> log, raised |-> "AttributeError"]
    ELSE Perform(Append(log, Head(ms)), Tail(ms))

When(cond, ms) == IF cond THEN ms ELSE <<>>

-----------------------------------------------------------------------------
(* WritingPipeline helpers                                                  *)

\* Padding with the last draft instead of the first.
RECURSIVE PadWithLastDraft(_)
PadWithLastDraft(drafts) ==
    IF Len(drafts) < 3
    THEN PadWithLastDraft(Append(drafts, drafts[Len(drafts)]))
    ELSE SubSeq(drafts, 1, 3)

RECURSIVE _prepare_drafts_for_editing_loop(_)
_prepare_drafts_for_editing_loop(drafts) ==
    IF Len(drafts) < 3
    THEN _prepare_drafts_for_editing_loop(Append(drafts, drafts[1]))
    ELSE SubSeq(drafts, 1, 3)

_prepare_drafts_for_editing(successful_drafts) ==
    _prepare_drafts_for_editing_loop(ValueList(successful_drafts))

RECURSIVE _prepare_edits_for_judging_loop(_)
_prepare_edits_for_judging_loop(edits) ==
    IF Len(edits) < 3
    THEN _prepare_edits_for_judging_loop(Append(edits, edits[1]))
    ELSE SubSeq(edits, 1, 3)

_prepare_edits_for_judging(successful_edits) ==
    _prepare_edits_for_judging_loop(ValueList(successful_edits))

\* Borda points of first_place, second_place, third_place.
PlacePoints == <<3, 2, 1>>

\* A += that always makes a new entry, as appending to a list of pairs would.
AddAlwaysAppends(scores, k, n) == Append(scores, <<k, n>>)

\* scores[k] += n on a Counter: a missing key counts 0 and is inserted last.
Add(scores, k, n) ==
    IF Has(scores, k) THEN Put(scores, k, Get(scores, k) + n)
    ELSE Append(scores, <<k, n>>)

\* The three += of one judge, first place first.
AddJudge(scores, rankings) ==
    Add(Add(Add(scores, rankings[1], PlacePoints[1]),
            rankings[2], PlacePoints[2]),
        rankings[3], PlacePoints[3])

RECURSIVE Accumulate(_)
Accumulate(judges) ==
    IF judges = <<>> THEN <<>>
    ELSE LET n == Len(judges)
         IN  AddJudge(Accumulate(SubSeq(judges, 1, n - 1)), judges[n].rankings)

\* A sort that is not stable: an item goes before the items of equal count.
InsertDescUnstable(sorted, item) ==
    LET before == {i \in DOMAIN sorted : sorted[i][2] > item[2]}
        k      == Cardinality(before)
    IN  SubSeq(sorted, 1, k) \o <<item>> \o SubSeq(sorted, k + 1, Len(sorted))

\* An item goes after every item whose count is at least its own.
InsertDesc(sorted, item) ==
    LET before == {i \in DOMAIN sorted : sorted[i][2] >= item[2]}
        k      == Cardinality(before)
    IN  SubSeq(sorted, 1, k) \o <<item>> \o SubSeq(sorted, k + 1, Len(sorted))

\* list(scores.items()): the Counter's items, never sorted.
ItemsUnsorted(items) == items

\* Counter.most_common(): sorted(items, key=count, reverse=True), a stable
\* sort, so equal counts keep their insertion order.
RECURSIVE most_common(_)
most_common(items) ==
    IF items = <<>> THEN <<>>
    ELSE LET n == Len(items)
         IN  InsertDesc(most_common(SubSeq(items, 1, n - 1)), items[n])

_calculate_consensus(jr) ==
    IF jr = <<>> THEN <<>>
    ELSE KeyList(most_common(Accumulate(ValueList(jr))))

\* The fallback taken at once: the first available edit, whatever the ranking.
FirstAvailableEdit(cons, edits) ==
    IF cons = <<>> \/ edits = <<>> THEN None ELSE ValueList(edits)[1]

_get_recommended_edit(cons, edits) ==
    IF cons = <<>> \/ edits = <<>> THEN None
    ELSE LET ranked == SelectSeq(cons, LAMBDA p : Has(edits, p))
         IN  IF ranked # <<>> THEN Get(edits, ranked[1])
             ELSE ValueList(edits)[1]

_create_failed_result(drafting_phase) ==
    PipelineResult(drafting_phase, EmptyPhase, EmptyPhase,
                   <<>>, <<>>, <<>>, <<>>, None)

\* The partial result built like the failed one, dropping the drafts.
PartialResultWithoutDrafts(drafting_phase, editing_phase, draft_results) ==
    PipelineResult(drafting_phase, editing_phase, EmptyPhase,
                   <<>>, <<>>, <<>>, <<>>, None)

_create_partial_result(drafting_phase, editing_phase, draft_results) ==
    PipelineResult(drafting_phase, editing_phase, EmptyPhase,
                   draft_results, <<>>, <<>>, <<>>, None)

-----------------------------------------------------------------------------
(* BaseAgent.run: one structured call, with the response cache and retries  *)

\* The largest max_retries a caller passes (the default is 3).
MaxRetriesBound == 3

\* Response texts, named by what parse_json_response makes of them.
Texts == {"json", "fenced_json", "not_json", "wrong_schema"}

\* A leading ```json and a trailing ``` are cut off.
StripFence(response) == IF response = "fenced_json" THEN "json" ELSE response

\* json.loads succeeds on the text.
JsonLoads(json_str) == json_str \in {"json", "wrong_schema"}

\* output_model.model_validate succeeds on the loaded data.
ModelValidate(json_str) == json_str = "json"

\* The agent whose run is modelled is the editor, which returns an
\* EditResult with metadata.provider set to the provider called.
parse_json_response(response, p) ==
    LET json_str == StripFence(response)
    IN  IF ~JsonLoads(json_str) THEN Raised("ValueError", "bad response")
        ELSE IF ~ModelValidate(json_str) THEN Raised("ValueError", "bad response")
        ELSE Returned(EditResult(p))

\* cache.get returns None for a key that is not stored.
Absent == "absent"

\* Model, prompt, system message, temperature and max_tokens are the same in
\* every call modelled here, so the key varies with the provider only.
make_key(p) == p

LLMCache_get(c, enabled, key) == IF enabled THEN c[key] ELSE Absent

LLMCache_set(c, enabled, key, response) ==
    IF enabled THEN [c EXCEPT ![key] = response] ELSE c

\* The store with nothing in it, and the stores a run can find on disk: left
\* by earlier processes, one entry at most here, of any text.
EmptyCache == [k \in Provider |-> Absent]

StoredCaches ==
    {EmptyCache} \cup
    {[EmptyCache EXCEPT ![k] = t] : k \in Provider, t \in Texts}

\* A stop rule that allows one attempt more.
StopAfterOneMore(n, max) == n > max

\* stop_after_attempt(max)(retry_state)
stop_after_attempt(n, max) == n >= max

\* A retry rule that retries whatever was raised.
RetryIfException(cls) == TRUE

\* retry_if_exception_type((LLMError, ValueError, TimeoutError))
retry_if_exception_type(cls) ==
    cls \in LLMError \cup ValueError \cup {"TimeoutError"}

\* What client.chat raises: the three LLMError classes the backends' except
\* clauses produce, a timeout, and what those clauses let through (IndexError
\* from response.content[0] or response.choices[0] on an empty list).
ChatExceptions == LLMError \cup {"TimeoutError", "IndexError"}

\* A cache hit that hands the stored text back unparsed.
FromCacheUnparsed(cached_response, p) == Returned(EditResult(p))

\* return self.parse_json_response(cached_response, provider)
FromCache(cached_response, p) == parse_json_response(cached_response, p)

\* A write that comes before the parse.
CacheSetBeforeParse(c, enabled, key, response, parsed) ==
    LLMCache_set(c, enabled, key, response)

\* cache.set stands after parse_json_response, which raises on a bad text.
CacheSetAfterParse(c, enabled, key, response, parsed) ==
    IF parsed.ok THEN LLMCache_set(c, enabled, key, response) ELSE c

pipevars == <<save_artifacts, providers, calls, phase_results, editor_input,
              judge_input, artifacts, judge_results, consensus>>

NoPipeline ==
    /\ save_artifacts = FALSE
    /\ providers = DefaultProviders
    /\ calls = [ph \in Phase |-> NotLaunched]
    /\ phase_results = [ph \in Phase |-> EmptyPhase]
    /\ editor_input = <<>>
    /\ judge_input = <<>>
    /\ artifacts = <<>>
    /\ judge_results = <<>>
    /\ consensus = <<>>

NoCall ==
    /\ cache_enabled = FALSE
    /\ cache = EmptyCache
    /\ provider = ""
    /\ max_retries = 0
    /\ attempt_number = 0
    /\ requests = 0
    /\ outcome = ""
    /\ validated = FALSE

NoNotify ==
    /\ on_progress = FALSE
    /\ notifications = <<>>

\* No response: what stands for None where a response text is expected.
NoResponse == [text |-> "", from |-> "", n |-> 0]

\* A BaseAgent as __init__ leaves it: attrs are the attributes that exist
\* (hasattr), and none of the three below is assigned before its first use.
NewAgent ==
    [attrs |-> {}, _last_raw_response |-> NoResponse, _last_provider |-> "",
     _failed_raw_responses |-> <<>>]

IdleTask == [st |-> "idle", attempt_number |-> 0, response |-> NoResponse,
             error |-> ""]

NoAgent ==
    /\ agent = NewAgent
    /\ tasks = [p \in Provider |-> IdleTask]

\* DrafterInput's defaults, and a task that has not entered DrafterAgent.run.
NoInputs == [max_research_steps |-> 0, research_context |-> <<>>]

IdleLoop == [st |-> "idle", steps_taken |-> 0, model_calls |-> 0,
             searches |-> 0, stop |-> "", prompt |-> <<>>]

NoResearch ==
    /\ inputs = NoInputs
    /\ research = [p \in Provider |-> IdleLoop]

NoRest ==
    /\ NoNotify
    /\ completed = [ph \in Phase |-> <<>>]
    /\ NoAgent
    /\ NoResearch
    /\ recommended_md = <<>>

CallInit ==
    /\ pc = "start"
    /\ result = <<>>
    /\ exception = ""
    /\ NoPipeline
    /\ cache_enabled \in BOOLEAN
    /\ cache \in StoredCaches
    /\ provider = ""
    /\ max_retries = 0
    /\ attempt_number = 0
    /\ requests = 0
    /\ outcome = ""
    /\ validated = FALSE
    /\ mapping = <<>>
    /\ text = <<>>
    /\ obfuscated = <<>>
    /\ revealed = <<>>
    /\ NoRest

\* run(inputs, provider, max_retries=mr) up to the cache lookup: a hit is
\* parsed and returned, a miss goes on to _call_with_retry.
CallRun ==
    \E p \in Provider, mr \in 0..MaxRetriesBound :
        /\ pc \in {"start", "returned", "raised"}
        /\ provider' = p
        /\ max_retries' = mr
        /\ attempt_number' = 0
        /\ requests' = 0
        /\ outcome' = ""
        /\ validated' = FALSE
        /\ LET cached_response == LLMCache_get(cache, cache_enabled, make_key(p))
               parsed          == FromCache(cached_response, p)
           IN  IF cached_response # Absent
               THEN IF parsed.ok
                    THEN /\ pc' = "returned"
                         /\ result' = <<parsed.value>>
                         /\ exception' = ""
                    ELSE /\ pc' = "raised"
                         /\ result' = <<>>
                         /\ exception' = parsed.cls
               ELSE /\ pc' = "attempt"
                    /\ result' = <<>>
                    /\ exception' = ""
        /\ UNCHANGED <<cache_enabled, cache, pipevars, obfvars, restvars>>

\* tenacity after attempt n failed with cls: the exception is raised to the
\* caller when it is not of a retried class or the stop rule says stop
\* (reraise=True), otherwise the backoff sleep starts.
AfterFailure(cls, n) ==
    /\ outcome' = cls
    /\ IF retry_if_exception_type(cls) /\ ~stop_after_attempt(n, max_retries)
       THEN /\ pc' = "sleeping"
            /\ UNCHANGED exception
       ELSE /\ pc' = "raised"
            /\ exception' = cls

\* An attempt whose LLMClient(...) raises: the backend's constructor finds no
\* API key. No request is sent.
ClientRaises ==
    /\ pc = "attempt"
    /\ attempt_number' = attempt_number + 1
    /\ AfterFailure("AuthenticationError", attempt_number + 1)
    /\ UNCHANGED <<cache_enabled, cache, provider, max_retries, requests,
                   validated, result, pipevars, obfvars, restvars>>

\* An attempt that gets as far as awaiting client.chat: a request is sent.
SendRequest ==
    /\ pc = "attempt"
    /\ attempt_number' = attempt_number + 1
    /\ requests' = requests + 1
    /\ pc' = "awaiting"
    /\ UNCHANGED <<cache_enabled, cache, provider, max_retries, outcome,
                   validated, result, exception, pipevars, obfvars, restvars>>

\* client.chat raises.
ChatRaises ==
    \E cls \in ChatExceptions :
        /\ pc = "awaiting"
        /\ AfterFailure(cls, attempt_number)
        /\ UNCHANGED <<cache_enabled, cache, provider, max_retries,
                       attempt_number, requests, validated, result, pipevars,
                       obfvars, restvars>>

\* client.chat returns a response: it is parsed, then cached and returned,
\* or the parser's ValueError fails the attempt.
ResponseArrives ==
    \E response \in Texts :
        LET parsed == parse_json_response(response, provider)
        IN  /\ pc = "awaiting"
            /\ cache' = CacheSetAfterParse(cache, cache_enabled,
                                           make_key(provider), response, parsed)
            /\ IF parsed.ok
               THEN /\ pc' = "returned"
                    /\ result' = <<parsed.value>>
                    /\ validated' = TRUE
                    /\ UNCHANGED <<outcome, exception>>
               ELSE /\ AfterFailure(parsed.cls, attempt_number)
                    /\ UNCHANGED <<result, validated>>
            /\ UNCHANGED <<cache_enabled, provider, max_retries, attempt_number,
                           requests, pipevars, obfvars, restvars>>

\* The backoff sleep ends and the next attempt starts.
BackoffEnds ==
    /\ pc = "sleeping"
    /\ pc' = "attempt"
    /\ UNCHANGED <<result, exception, callvars, pipevars, obfvars, restvars>>

CallNext ==
    CallRun \/ ClientRaises \/ SendRequest \/ ChatRaises \/ ResponseArrives
        \/ BackoffEnds

SpecCall == CallInit /\ [][CallNext]_vars

-----------------------------------------------------------------------------
(* ProviderMapping and the text rewrites (artifacts/obfuscation.py)         *)

ALIASES == <<"aleph", "bet", "gimel">>

PROVIDERS == <<"claude", "gemini", "chatgpt">>

\* ProviderMapping(aleph=a, bet=b, gimel=g): pydantic checks that each field
\* is a Provider and nothing else; model_post_init builds _reverse as a dict
\* literal, where a repeated key keeps its place and takes the last value.
ProviderMapping(a, b, g) ==
    [aleph |-> a, bet |-> b, gimel |-> g,
     _reverse |-> Put(Put(Put(<<>>, a, "aleph"), b, "bet"), g, "gimel")]

get_provider(m, alias) == m[alias]

\* self._reverse[provider], a KeyError when the provider is not a key.
get_alias(m, p) ==
    IF Has(m._reverse, p) THEN Get(m._reverse, p) ELSE "KeyError"

\* What random.shuffle can leave in the copied list: any order of it.
Shuffles ==
    {s \in [1..3 -> Range(PROVIDERS)] : \A i, j \in 1..3 : s[i] = s[j] => i = j}

\* A mapping that takes the first shuffled entry twice.
CreateRandomRepeatsFirst(shuffled) ==
    ProviderMapping(shuffled[1], shuffled[1], shuffled[3])

create_random(shuffled) ==
    ProviderMapping(shuffled[1], shuffled[2], shuffled[3])

\* The dicts from_dict is handed: any of the alias keys, each with a provider.
StoredDicts ==
    UNION {[S -> Provider] : S \in SUBSET Range(ALIASES)}

\* mapping["aleph"], mapping["bet"], mapping["gimel"]: a KeyError when a key
\* is missing.
from_dict(d) ==
    IF Range(ALIASES) \subseteq DOMAIN d
    THEN [raised |-> "",
          value  |-> ProviderMapping(d["aleph"], d["bet"], d["gimel"])]
    ELSE [raised |-> "KeyError", value |-> <<>>]

\* A text is a sequence of fragments. <<name, style>> is a provider or alias
\* name in the spelling str (lower), str.title() or str.upper(); <<s, "">> is
\* any other run of characters. No name occurs inside or across fragments, so
\* str.replace(old, new) replaces exactly the fragments equal to old.
Styles == {"lower", "title", "upper"}

replace(res, old, new) ==
    [i \in DOMAIN res |-> IF res[i] = old THEN new ELSE res[i]]

\* The three replace calls of one loop iteration.
ReplaceName(res, old, new) ==
    replace(replace(replace(res, <<old, "lower">>, <<new, "lower">>),
                    <<old, "title">>, <<new, "title">>),
            <<old, "upper">>, <<new, "upper">>)

\* An iteration that writes the provider's lower-case name for alias.title().
ReplaceNameLosingTitle(res, old, new) ==
    replace(replace(replace(res, <<old, "lower">>, <<new, "lower">>),
                    <<old, "title">>, <<new, "lower">>),
            <<old, "upper">>, <<new, "upper">>)

\* One iteration of reveal_provider_in_text's loop.
RevealName(res, alias, p) == ReplaceName(res, alias, p)

RECURSIVE obfuscate_loop(_, _, _)
obfuscate_loop(res, m, ps) ==
    IF ps = <<>> THEN res
    ELSE obfuscate_loop(ReplaceName(res, Head(ps), get_alias(m, Head(ps))),
                        m, Tail(ps))

obfuscate_provider_in_text(t, m) == obfuscate_loop(t, m, PROVIDERS)

RECURSIVE reveal_loop(_, _, _)
reveal_loop(res, m, as) ==
    IF as = <<>> THEN res
    ELSE reveal_loop(RevealName(res, Head(as), get_provider(m, Head(as))),
                     m, Tail(as))

reveal_provider_in_text(t, m) == reveal_loop(t, m, ALIASES)

\* Building and querying mappings.
MappingInit ==
    /\ pc = "start"
    /\ result = <<>>
    /\ exception = ""
    /\ NoPipeline
    /\ NoCall
    /\ mapping = <<>>
    /\ text = <<>>
    /\ obfuscated = <<>>
    /\ revealed = <<>>
    /\ NoRest

\* ProviderMapping.create_random()
CreateRandom ==
    \E shuffled \in Shuffles :
        /\ pc = "start"
        /\ mapping' = create_random(shuffled)
        /\ pc' = "random"
        /\ UNCHANGED <<result, exception, text, obfuscated, revealed, pipevars,
                       callvars, restvars>>

\* ProviderMapping(aleph=a, bet=b, gimel=g), as ArtifactStore(mapping=...)
\* and the tests build it.
Construct ==
    \E a, b, g \in Provider :
        /\ pc = "start"
        /\ mapping' = ProviderMapping(a, b, g)
        /\ pc' = "direct"
        /\ UNCHANGED <<result, exception, text, obfuscated, revealed, pipevars,
                       callvars, restvars>>

\* ProviderMapping.from_dict(d)
FromDict ==
    \E d \in StoredDicts :
        /\ pc = "start"
        /\ IF from_dict(d).raised # ""
           THEN /\ pc' = "raised"
                /\ exception' = from_dict(d).raised
                /\ UNCHANGED mapping
           ELSE /\ pc' = "restored"
                /\ mapping' = from_dict(d).value
                /\ UNCHANGED exception
        /\ UNCHANGED <<result, text, obfuscated, revealed, pipevars, callvars, restvars>>

\* mapping.get_alias(p)
GetAlias ==
    \E p \in Provider :
        /\ pc \in {"random", "direct", "restored"}
        /\ result = <<>>
        /\ exception = ""
        /\ IF get_alias(mapping, p) = "KeyError"
           THEN /\ exception' = "KeyError"
                /\ UNCHANGED result
           ELSE /\ result' = <<p, get_alias(mapping, p)>>
                /\ UNCHANGED exception
        /\ UNCHANGED <<pc, mapping, text, obfuscated, revealed, pipevars,
                       callvars, restvars>>

\* mapping.get_provider(alias)
GetProvider ==
    \E alias \in Range(ALIASES) :
        /\ pc \in {"random", "direct", "restored"}
        /\ result = <<>>
        /\ exception = ""
        /\ result' = <<alias, get_provider(mapping, alias)>>
        /\ UNCHANGED <<pc, exception, mapping, text, obfuscated, revealed,
                       pipevars, callvars, restvars>>

MappingNext == CreateRandom \/ Construct \/ FromDict \/ GetAlias \/ GetProvider

SpecMapping == MappingInit /\ [][MappingNext]_vars

\* Obfuscating a text and revealing it again.
MaxWords == 3

\* The words texts are made of: the provider names in the three spellings,
\* and two words that hold no provider name, "draft" and "better" (which
\* holds the letters b, e, t).
ProviderWords == {<<<<p, s>>>> : p \in Provider, s \in Styles}

NeutralWords == {<<<<"draft", "">>>>, <<<<"bet", "lower">>, <<"ter", "">>>>}

RECURSIVE Join(_)
Join(words) == IF words = <<>> THEN <<>> ELSE Head(words) \o Join(Tail(words))

CleanTexts ==
    {Join(ws) : ws \in UNION {[1..n -> ProviderWords \cup NeutralWords] :
                                  n \in 0..MaxWords}}

ObfInit ==
    /\ pc = "start"
    /\ result = <<>>
    /\ exception = ""
    /\ NoPipeline
    /\ NoCall
    /\ mapping \in {create_random(s) : s \in Shuffles}
    /\ text \in CleanTexts
    /\ obfuscated = <<>>
    /\ revealed = <<>>
    /\ NoRest

Obfuscate ==
    /\ pc = "start"
    /\ obfuscated' = <<obfuscate_provider_in_text(text, mapping)>>
    /\ pc' = "obfuscated"
    /\ UNCHANGED <<result, exception, mapping, text, revealed, pipevars,
                   callvars, restvars>>

Reveal ==
    /\ pc = "obfuscated"
    /\ revealed' = <<reveal_provider_in_text(obfuscated[1], mapping)>>
    /\ pc' = "revealed"
    /\ UNCHANGED <<result, exception, mapping, text, obfuscated, pipevars,
                   callvars, restvars>>

ObfNext == Obfuscate \/ Reveal

SpecObf == ObfInit /\ [][ObfNext]_vars

-----------------------------------------------------------------------------
(* WritingPipeline.run                                                      *)

\* The exception classes the pipeline specification draws provider failures
\* from (run's control flow reads only whether a call succeeded).
PipelineExceptions == {"AuthenticationError"}

PipelineMessages == {"API key not found"}

\* run is called with an on_progress argument among callbacks.
RunCalled(callbacks) ==
    /\ pc = "start"
    /\ save_artifacts \in BOOLEAN
    /\ providers = DefaultProviders
    /\ calls = [ph \in Phase |-> NotLaunched]
    /\ phase_results = [ph \in Phase |-> EmptyPhase]
    /\ editor_input = <<>>
    /\ judge_input = <<>>
    /\ result = <<>>
    /\ exception = ""
    /\ artifacts = <<>>
    /\ judge_results = <<>>
    /\ consensus = <<>>
    /\ NoCall
    /\ mapping = <<>>
    /\ text = <<>>
    /\ obfuscated = <<>>
    /\ revealed = <<>>
    /\ on_progress \in callbacks
    /\ notifications = <<>>
    /\ completed = [ph \in Phase |-> <<>>]
    /\ NoAgent
    /\ NoResearch
    /\ recommended_md = <<>>

\* on_progress defaults to None.
Init == RunCalled({FALSE})

\* A callback that is told of the starts only.
NotifyStartsOnly(callback, phase, status) ==
    IF callback /\ status = "starting" THEN <<<<phase, status>>>> ELSE <<>>

\* A Winner line that names the last of the ranking.
WinnerIsLastRanked(consensus_ranking) ==
    consensus_ranking[Len(consensus_ranking)]

\* winner_provider = consensus_ranking[0]
winner_provider(consensus_ranking) == consensus_ranking[1]

\* ArtifactStore.save_final: recommended.md is written when there is a
\* recommended edit, with the title-cased alias of the first of the ranking
\* as Winner ("unknown" for an empty ranking) and the edit's content.
save_final(file, m, recommended_edit, consensus_ranking) ==
    IF recommended_edit # None
    THEN <<[winner |-> IF consensus_ranking # <<>>
                       THEN <<get_alias(m, winner_provider(consensus_ranking)),
                              "title">>
                       ELSE <<"unknown", "title">>,
            edit   |-> recommended_edit]>>
    ELSE file

\* _notify(callback, phase, status): what the call delivers.
_notify(callback, phase, status) ==
    IF callback THEN <<<<phase, status>>>> ELSE <<>>

\* run up to its first await of run_parallel: the artifact store is set up,
\* the sources loaded and cite-assist queried where asked for, the input
\* saved, and the drafter's fan-out launched.
RunStart ==
    /\ pc = "start"
    /\ \E source_files \in BOOLEAN, use_cite_assist \in BOOLEAN,
          shuffled \in Shuffles :
        LET done == Perform(artifacts,
                            When(save_artifacts, <<"initialize", "save_input">>))
            before == When(save_artifacts,
                           _notify(on_progress, "artifacts", "starting"))
                   \o When(source_files,
                           _notify(on_progress, "sources", "starting")
                        \o _notify(on_progress, "sources", "completed"))
                   \o When(use_cite_assist,
                           _notify(on_progress, "research", "starting")
                        \o _notify(on_progress, "research", "completed"))
        IN  /\ artifacts' = done.log
            /\ mapping' = IF save_artifacts THEN create_random(shuffled) ELSE mapping
            /\ IF done.raised # ""
               THEN /\ pc' = "raised"
                    /\ exception' = done.raised
                    /\ notifications' = notifications \o before
                    /\ UNCHANGED calls
               ELSE /\ pc' = "drafting"
                    /\ calls' = [calls EXCEPT !["drafting"] = Launch(providers)]
                    /\ notifications' = notifications \o before
                           \o _notify(on_progress, "drafting", "starting")
                    /\ UNCHANGED exception
    /\ UNCHANGED <<save_artifacts, providers, phase_results, editor_input,
                   judge_input, result, judge_results, consensus>>
    /\ UNCHANGED <<callvars, text, obfuscated, revealed, on_progress, completed,
                   agentvars, researchvars, recommended_md>>

\* A provider call of the running pipeline settles.
ProviderSettles ==
    \E ph \in Phase, p \in Provider :
        \E out \in Outcomes(ph, p, RankingChoices, PipelineExceptions,
                            PipelineMessages) :
            RunOneSettle(ph, p, out)

\* The drafter's run_parallel returns: PhaseResult, artifacts, then either
\* the early return or the editor's fan-out.
DraftingDone ==
    /\ pc = "drafting"
    /\ Gathered(calls["drafting"], providers)
          \/ GatherRaises(calls["drafting"], providers)
    /\ IF GatherRaises(calls["drafting"], providers)
       THEN /\ pc' = "raised"
            /\ exception' = "propagated"
            /\ UNCHANGED <<calls, phase_results, editor_input, result, artifacts,
                           notifications>>
       ELSE LET par            == ParallelRunResult(calls["drafting"], providers)
                drafting_phase == PhaseResult(par.successful, par.failed)
                done == Perform(artifacts, When(save_artifacts,
                            When(par.successful # <<>>, <<"save_drafts">>)
                         \o When(par.failed # <<>>, <<"save_errors">>)
                         \o When(success_count(drafting_phase) < 1, <<"finalize">>)))
            IN  /\ phase_results' = [phase_results EXCEPT !["drafting"] = drafting_phase]
                /\ artifacts' = done.log
                /\ IF done.raised # ""
                   THEN /\ pc' = "raised"
                        /\ exception' = done.raised
                        /\ notifications' = notifications
                               \o _notify(on_progress, "drafting", "completed")
                        /\ UNCHANGED <<calls, editor_input, result>>
                   ELSE IF success_count(drafting_phase) < 1
                   THEN /\ pc' = "done"
                        /\ result' = <<_create_failed_result(drafting_phase)>>
                        /\ notifications' = notifications
                               \o _notify(on_progress, "drafting", "completed")
                        /\ UNCHANGED <<calls, editor_input, exception>>
                   ELSE /\ pc' = "editing"
                        /\ editor_input' = _prepare_drafts_for_editing(par.successful)
                        /\ calls' = [calls EXCEPT !["editing"] = Launch(providers)]
                        /\ notifications' = notifications
                               \o _notify(on_progress, "drafting", "completed")
                               \o _notify(on_progress, "editing", "starting")
                        /\ UNCHANGED <<result, exception>>
    /\ UNCHANGED <<save_artifacts, providers, judge_input, judge_results, consensus>>
    /\ UNCHANGED <<callvars, obfvars, on_progress, completed, agentvars, researchvars>>
    /\ UNCHANGED recommended_md

\* The editor's run_parallel returns.
EditingDone ==
    /\ pc = "editing"
    /\ Gathered(calls["editing"], providers)
          \/ GatherRaises(calls["editing"], providers)
    /\ IF GatherRaises(calls["editing"], providers)
       THEN /\ pc' = "raised"
            /\ exception' = "propagated"
            /\ UNCHANGED <<calls, phase_results, judge_input, result, artifacts,
                           notifications>>
       ELSE LET par            == ParallelRunResult(calls["editing"], providers)
                drafting_phase == phase_results["drafting"]
                editing_phase  == PhaseResult(par.successful, par.failed)
                done == Perform(artifacts, When(save_artifacts,
                            When(par.successful # <<>>, <<"save_edits">>)
                         \o When(par.failed # <<>>, <<"save_errors">>)
                         \o When(success_count(editing_phase) < 1, <<"finalize">>)))
            IN  /\ phase_results' = [phase_results EXCEPT !["editing"] = editing_phase]
                /\ artifacts' = done.log
                /\ IF done.raised # ""
                   THEN /\ pc' = "raised"
                        /\ exception' = done.raised
                        /\ notifications' = notifications
                               \o _notify(on_progress, "editing", "completed")
                        /\ UNCHANGED <<calls, judge_input, result>>
                   ELSE IF success_count(editing_phase) < 1
                   THEN /\ pc' = "done"
                        /\ result' = <<_create_partial_result(drafting_phase,
                                           editing_phase, drafting_phase.successful)>>
                        /\ notifications' = notifications
                               \o _notify(on_progress, "editing", "completed")
                        /\ UNCHANGED <<calls, judge_input, exception>>
                   ELSE /\ pc' = "judging"
                        /\ judge_input' = _prepare_edits_for_judging(par.successful)
                        /\ calls' = [calls EXCEPT !["judging"] = Launch(providers)]
                        /\ notifications' = notifications
                               \o _notify(on_progress, "editing", "completed")
                               \o _notify(on_progress, "judging", "starting")
                        /\ UNCHANGED <<result, exception>>
    /\ UNCHANGED <<save_artifacts, providers, editor_input, judge_results, consensus>>
    /\ UNCHANGED <<callvars, obfvars, on_progress, completed, agentvars, researchvars>>
    /\ UNCHANGED recommended_md

\* The judge's run_parallel returns; aggregation; run returns.
JudgingDone ==
    /\ pc = "judging"
    /\ Gathered(calls["judging"], providers)
          \/ GatherRaises(calls["judging"], providers)
    /\ IF GatherRaises(calls["judging"], providers)
       THEN /\ pc' = "raised"
            /\ exception' = "propagated"
            /\ UNCHANGED <<phase_results, result, artifacts, notifications,
                           recommended_md>>
       ELSE LET par            == ParallelRunResult(calls["judging"], providers)
                drafting_phase == phase_results["drafting"]
                editing_phase  == phase_results["editing"]
                judging_phase  == PhaseResult(par.successful, par.failed)
                cons           == _calculate_consensus(par.successful)
                recommended    == _get_recommended_edit(cons, editing_phase.successful)
                done == Perform(artifacts, When(save_artifacts,
                            When(par.failed # <<>>, <<"save_errors">>)
                         \o When(par.successful # <<>>, <<"save_judgments">>)
                         \o <<"save_final", "finalize">>))
            IN  /\ phase_results' = [phase_results EXCEPT !["judging"] = judging_phase]
                /\ artifacts' = done.log
                /\ recommended_md' =
                       IF save_artifacts /\ done.raised = ""
                       THEN save_final(recommended_md, mapping, recommended, cons)
                       ELSE recommended_md
                /\ IF done.raised # ""
                   THEN /\ pc' = "raised"
                        /\ exception' = done.raised
                        /\ notifications' = notifications
                               \o _notify(on_progress, "judging", "completed")
                        /\ UNCHANGED result
                   ELSE /\ pc' = "done"
                        /\ result' = <<PipelineResult(drafting_phase, editing_phase,
                                          judging_phase, drafting_phase.successful,
                                          editing_phase.successful, par.successful,
                                          cons, recommended)>>
                        /\ notifications' = notifications
                               \o _notify(on_progress, "judging", "completed")
                               \o When(save_artifacts,
                                     _notify(on_progress, "artifacts", "completed"))
                        /\ UNCHANGED exception
    /\ UNCHANGED <<save_artifacts, providers, calls, editor_input, judge_input,
                   judge_results, consensus>>
    /\ UNCHANGED <<callvars, obfvars, on_progress, completed, agentvars, researchvars>>

Next == RunStart \/ ProviderSettles \/ DraftingDone \/ EditingDone \/ JudgingDone

Spec == Init /\ [][Next]_vars

\* The one ranking a judge returns where the rankings do not matter.
FanRankings == {DefaultProviders}

\* The same pipeline where every step that can be taken is taken in the end:
\* the event loop resumes run when its gather resolves, and every provider
\* call that was launched settles.
\* Every judge returns the same rankings here: whether run ends does not
\* depend on them.
LiveSettles ==
    \E ph \in Phase, p \in Provider :
        \E out \in Outcomes(ph, p, FanRankings, PipelineExceptions,
                            PipelineMessages) :
            RunOneSettle(ph, p, out)

LiveNext == RunStart \/ LiveSettles \/ DraftingDone \/ EditingDone \/ JudgingDone

\* run is resumed from its await: the steps DraftingDone, EditingDone and
\* JudgingDone are exactly the steps of LiveNext that leave a phase, and one
\* of them can be taken exactly when the phase's gather has resolved.
Resumed ==
    /\ pc \in Phase
    /\ Gathered(calls[pc], providers) \/ GatherRaises(calls[pc], providers)
    /\ pc' \in {"editing", "judging", "done", "raised"}
    /\ pc' # pc

SpecLive ==
    /\ Init
    /\ [][LiveNext]_vars
    /\ WF_vars(RunStart)
    /\ WF_vars(LiveSettles)
    /\ WF_pc(Resumed)

-----------------------------------------------------------------------------
(* The editor's and the judge's prompts                                     *)

\* provider_order of both build_prompt methods.
provider_order == <<"claude", "gemini", "chatgpt">>

\* zip(provider_order, items): pairs up to the shorter of the two.
zip(names, items) ==
    LET n == IF Len(names) <= Len(items) THEN Len(names) ELSE Len(items)
    IN  [i \in 1..n |-> <<names[i], items[i]>>]

\* The sections "Draft A (Claude)", ...: the provider named in the heading
\* of each slot, and the draft whose content fills it.
EditorAgent_build_prompt(drafts) ==
    LET pairs == zip(provider_order, drafts)
    IN  [i \in DOMAIN pairs |-> [label |-> pairs[i][1], content |-> pairs[i][2]]]

\* The sections "Integrated Draft X (from Claude Editor)", ...
JudgeAgent_build_prompt(integrated_drafts) ==
    LET pairs == zip(provider_order, integrated_drafts)
    IN  [i \in DOMAIN pairs |-> [label |-> pairs[i][1], content |-> pairs[i][2]]]

-----------------------------------------------------------------------------
(* The pipeline called with or without a progress callback                  *)

NotifyInit == RunCalled(BOOLEAN)

SpecNotify == NotifyInit /\ [][LiveNext]_vars

-----------------------------------------------------------------------------
(* The pipeline with the order in which the tasks of a gather finish        *)

\* Two opposite orders: judges that disagree this way tie every provider.
OrderRankings == {<<"claude", "gemini", "chatgpt">>,
                  <<"chatgpt", "gemini", "claude">>}

\* A run_one task finishes: the event loop resumes it from its await of
\* BaseAgent.run at any time after launch, in any order among its siblings.
RunOneCompletes(ph, p, out) ==
    /\ calls[ph][p].st = "running"
    /\ calls' = [calls EXCEPT ![ph][p] = Settled(out)]
    /\ completed' = [completed EXCEPT ![ph] = Append(@, p)]
    /\ UNCHANGED <<pc, save_artifacts, providers, phase_results, editor_input,
                   judge_input, result, exception, artifacts, judge_results,
                   consensus>>
    /\ UNCHANGED <<callvars, obfvars, notifyvars, agentvars, researchvars,
                   recommended_md>>

\* Every draft succeeds here: the ranking and the recommended edit are
\* computed from the edits and the judgments only.
OrderOutcomes(ph, p) ==
    IF ph = "drafting"
    THEN {Returned(DraftResult(p))}
    ELSE Outcomes(ph, p, OrderRankings, PipelineExceptions, PipelineMessages)

OrderSettles ==
    \E ph \in Phase, p \in Provider :
        \E out \in OrderOutcomes(ph, p) :
            RunOneCompletes(ph, p, out)

OrderNext == RunStart \/ OrderSettles \/ DraftingDone \/ EditingDone \/ JudgingDone

SpecOrder == Init /\ [][OrderNext]_vars

-----------------------------------------------------------------------------
(* A lone run_parallel call, attempt by attempt: the tasks share the        *)
(* agent's _last_raw_response, _last_provider and _failed_raw_responses     *)

\* max_retries of the fan-out.
RawRetries == 2

\* A response is its text, tagged with the provider and the attempt it
\* answers so that two responses are never mistaken for one another.
RawTexts == {"json", "not_json"}

Response(t, p, n) == [text |-> t, from |-> p, n |-> n]

RawExceptions == {"RateLimitError"}

\* The agent after an earlier fan-out whose last parse was of a response of
\* claude.
UsedAgent ==
    [attrs |-> {"_last_raw_response", "_last_provider", "_failed_raw_responses"},
     _last_raw_response |-> Response("not_json", "claude", RawRetries + 2),
     _last_provider |-> "claude",
     _failed_raw_responses |-> <<>>]

hasattr(a, name) == name \in a.attrs

\* An agent that keeps the response but not whose it is.
RememberResponseOnly(a, response, p) ==
    [a EXCEPT !.attrs = @ \cup {"_last_raw_response"},
              !._last_raw_response = response]

\* parse_json_response's first two statements.
Remember(a, response, p) ==
    [a EXCEPT !.attrs = @ \cup {"_last_raw_response", "_last_provider"},
              !._last_raw_response = response,
              !._last_provider = p]

\* run_one's except ValueError clause: the raw response is kept if the last
\* parse was of this provider's response.
CaptureRaw(a, p) ==
    IF /\ hasattr(a, "_last_raw_response")
       /\ hasattr(a, "_last_provider")
       /\ a._last_provider = p
    THEN [a EXCEPT !._failed_raw_responses = Put(@, p, a._last_raw_response)]
    ELSE a

get_failed_raw_response(a, p) ==
    IF hasattr(a, "_failed_raw_responses") /\ Has(a._failed_raw_responses, p)
    THEN Get(a._failed_raw_responses, p)
    ELSE NoResponse

RawInit ==
    /\ pc = "start"
    /\ result = <<>>
    /\ exception = ""
    /\ NoPipeline
    /\ NoCall
    /\ mapping = <<>>
    /\ text = <<>>
    /\ obfuscated = <<>>
    /\ revealed = <<>>
    /\ NoNotify
    /\ completed = [ph \in Phase |-> <<>>]
    /\ agent \in {NewAgent, UsedAgent}
    /\ tasks = [p \in Provider |-> IdleTask]
    /\ NoResearch
    /\ recommended_md = <<>>

rawrest == <<result, exception, pipevars, callvars, obfvars, notifyvars,
             completed, researchvars, recommended_md>>

\* run_parallel up to its await of gather: _failed_raw_responses is reset
\* and one task per provider is created.
RawCall ==
    /\ pc = "start"
    /\ pc' = "gather"
    /\ agent' = [agent EXCEPT !.attrs = @ \cup {"_failed_raw_responses"},
                              !._failed_raw_responses = <<>>]
    /\ tasks' = [p \in Provider |->
                    IF p \in Range(providers)
                    THEN [IdleTask EXCEPT !.st = "created"]
                    ELSE IdleTask]
    /\ UNCHANGED rawrest

\* What run_one returns for an exception that BaseAgent.run raised, and the
\* agent after its except clause.
RunOneCatches(a, p, cls) ==
    [agent |-> IF cls \in ValueError THEN CaptureRaw(a, p) ELSE a,
     error |-> ErrorType(cls)]

\* A task runs from its creation to its first await: the cache lookup, and
\* on a hit the parse of the cached text and the end of the task.
TaskStarts ==
    \E p \in Provider, cached \in {Absent} \cup RawTexts :
        /\ pc = "gather"
        /\ tasks[p].st = "created"
        /\ IF cached = Absent
           THEN /\ tasks' = [tasks EXCEPT ![p].st = "waiting",
                                          ![p].attempt_number = 1]
                /\ UNCHANGED agent
           ELSE LET response == Response(cached, p, 0)
                    a        == Remember(agent, response, p)
                    parsed   == FromCache(cached, p)
                    caught   == RunOneCatches(a, p, parsed.cls)
                IN  IF parsed.ok
                    THEN /\ tasks' = [tasks EXCEPT ![p].st = "settled",
                                                   ![p].response = response]
                         /\ agent' = a
                    ELSE /\ tasks' = [tasks EXCEPT ![p].st = "settled",
                                                   ![p].response = response,
                                                   ![p].error = caught.error]
                         /\ agent' = caught.agent
        /\ UNCHANGED <<pc, rawrest>>

\* An attempt of p has raised cls with the agent in state a: tenacity sleeps
\* before the next attempt, or reraises into run_one's except clauses, with
\* no await in between.
AttemptRaises(p, cls, a, response) ==
    IF /\ retry_if_exception_type(cls)
       /\ ~stop_after_attempt(tasks[p].attempt_number, RawRetries)
    THEN /\ tasks' = [tasks EXCEPT ![p].st = "sleeping",
                                   ![p].response = response]
         /\ agent' = a
    ELSE LET caught == RunOneCatches(a, p, cls)
         IN  /\ tasks' = [tasks EXCEPT ![p].st = "settled",
                                       ![p].response = response,
                                       ![p].error = caught.error]
             /\ agent' = caught.agent

\* client.chat returns: the response is parsed at once.
RawResponseArrives ==
    \E p \in Provider, t \in RawTexts :
        /\ pc = "gather"
        /\ tasks[p].st = "waiting"
        /\ LET response == Response(t, p, tasks[p].attempt_number)
               a        == Remember(agent, response, p)
               parsed   == parse_json_response(t, p)
           IN  IF parsed.ok
               THEN /\ tasks' = [tasks EXCEPT ![p].st = "settled",
                                              ![p].response = response]
                    /\ agent' = a
               ELSE AttemptRaises(p, parsed.cls, a, response)
        /\ UNCHANGED <<pc, rawrest>>

\* client.chat raises.
RawChatRaises ==
    \E p \in Provider, cls \in RawExceptions :
        /\ pc = "gather"
        /\ tasks[p].st = "waiting"
        /\ AttemptRaises(p, cls, agent, tasks[p].response)
        /\ UNCHANGED <<pc, rawrest>>

\* The backoff sleep of p ends and the next attempt sends its request.
RawBackoffEnds ==
    \E p \in Provider :
        /\ pc = "gather"
        /\ tasks[p].st = "sleeping"
        /\ tasks' = [tasks EXCEPT ![p].st = "waiting",
                                  ![p].attempt_number = @ + 1]
        /\ UNCHANGED <<pc, agent, rawrest>>

\* gather resolves and run_parallel returns.
RawReturn ==
    /\ pc = "gather"
    /\ \A p \in Range(providers) : tasks[p].st = "settled"
    /\ pc' = "returned"
    /\ UNCHANGED <<agent, tasks, rawrest>>

RawNext ==
    \/ RawCall
    \/ TaskStarts
    \/ RawResponseArrives
    \/ RawChatRaises
    \/ RawBackoffEnds
    \/ RawReturn

SpecRaw == RawInit /\ [][RawNext]_vars

-----------------------------------------------------------------------------
(* DrafterAgent.run_parallel with research: three tasks, one DrafterInput   *)

\* The largest max_research_steps tried.
MaxResearchSteps == 2

\* What a response of the research model can be: a well-formed tool call, a
\* tool call whose query cannot be parsed, neither, FINAL ANSWER, or FINAL
\* ANSWER together with a well-formed tool call.
Contents == {"search", "bad_query", "talk", "final", "final_and_search"}

\* "FINAL ANSWER" in content
HasFinalAnswer(content) == content \in {"final", "final_and_search"}

\* tool_match and query_match both found.
HasSearch(content) == content \in {"search", "final_and_search"}

\* A loop that searches whenever the response holds a tool call.
SearchesWhenAsked(content) == HasSearch(content)

\* The loop body reaches search_tool.run: FINAL ANSWER breaks out first.
ExecutesSearch(content) == ~HasFinalAnswer(content) /\ HasSearch(content)

\* A loop that allows one step more.
LoopContinuesOneMore(steps_taken, max) == steps_taken <= max

\* while steps_taken < inputs.max_research_steps
LoopContinues(steps_taken, max) == steps_taken < max

\* The finding that the k-th search of p's loop appends.
Finding(p, k) == <<p, k>>

\* A finding the caller put into research_context.
GivenFinding == <<"given", 0>>

\* build_prompt's research section: the findings of inputs.research_context
\* as they stand when the prompt is built.
research_section(inp) == inp.research_context

ResearchInit ==
    /\ pc = "start"
    /\ result = <<>>
    /\ exception = ""
    /\ NoPipeline
    /\ NoCall
    /\ mapping = <<>>
    /\ text = <<>>
    /\ obfuscated = <<>>
    /\ revealed = <<>>
    /\ NoNotify
    /\ completed = [ph \in Phase |-> <<>>]
    /\ NoAgent
    /\ inputs \in {[max_research_steps |-> n, research_context |-> c] :
                      n \in 0..MaxResearchSteps, c \in {<<>>, <<GivenFinding>>}}
    /\ research = [p \in Provider |-> IdleLoop]
    /\ recommended_md = <<>>

researchrest == <<result, exception, pipevars, callvars, obfvars, notifyvars,
                  completed, agentvars, recommended_md>>

\* run_parallel up to its await of gather: one task per provider, all given
\* the same inputs object.
ResearchCall ==
    /\ pc = "start"
    /\ pc' = "gather"
    /\ research' = [p \in Provider |->
                       IF p \in Range(providers)
                       THEN [IdleLoop EXCEPT !.st = "created"]
                       ELSE IdleLoop]
    /\ UNCHANGED <<inputs, researchrest>>

\* The loop of p is over: run goes on into BaseAgent.run, which builds the
\* prompt before its first await.
Drafting(loop, inp) ==
    [loop EXCEPT !.st = "drafting", !.prompt = research_section(inp)]

\* The loop of p comes to its while test with the inputs as inp: the next
\* model call is sent, or the loop is over.
AtWhile(loop, inp) ==
    IF LoopContinues(loop.steps_taken, inp.max_research_steps)
    THEN [loop EXCEPT !.st = "loop", !.model_calls = @ + 1]
    ELSE Drafting([loop EXCEPT !.stop = "exhausted"], inp)

\* A task runs DrafterAgent.run to its first await: with research asked for,
\* the LLMClient is made, which can raise out of run, and the loop entered.
LoopStarts ==
    \E p \in Provider, client_raises \in BOOLEAN :
        /\ pc = "gather"
        /\ research[p].st = "created"
        /\ research' = [research EXCEPT ![p] =
               IF inputs.max_research_steps > 0
               THEN IF client_raises
                    THEN [@ EXCEPT !.st = "failed", !.stop = "client"]
                    ELSE AtWhile(@, inputs)
               ELSE Drafting(@, inputs)]
        /\ UNCHANGED <<pc, inputs, researchrest>>

\* The context after the loop of p has dealt with content.
Researched(inp, p, loop, content) ==
    IF ExecutesSearch(content)
    THEN [inp EXCEPT !.research_context =
              Append(@, Finding(p, loop.searches + 1))]
    ELSE inp

\* client.chat returns content to the loop of p: the rest of the iteration,
\* and the while test or, after a break, the prompt.
LoopStep ==
    \E p \in Provider, content \in Contents :
        /\ pc = "gather"
        /\ research[p].st = "loop"
        /\ LET inp  == Researched(inputs, p, research[p], content)
               loop == [research[p] EXCEPT
                           !.searches = IF ExecutesSearch(content)
                                        THEN @ + 1 ELSE @]
           IN  /\ inputs' = inp
               /\ research' = [research EXCEPT ![p] =
                      IF HasFinalAnswer(content)
                      THEN Drafting([loop EXCEPT !.stop = "final"], inp)
                      ELSE AtWhile([loop EXCEPT !.steps_taken = @ + 1], inp)]
        /\ UNCHANGED <<pc, researchrest>>

\* client.chat raises in the loop of p: except Exception, break.
LoopChatRaises ==
    \E p \in Provider :
        /\ pc = "gather"
        /\ research[p].st = "loop"
        /\ research' = [research EXCEPT ![p] =
               Drafting([@ EXCEPT !.stop = "exception"], inputs)]
        /\ UNCHANGED <<pc, inputs, researchrest>>

ResearchNext == ResearchCall \/ LoopStarts \/ LoopStep \/ LoopChatRaises

\* Every model call is answered or fails in the end, and the event loop runs
\* every task that can run.
SpecResearch ==
    /\ ResearchInit
    /\ [][ResearchNext]_vars
    /\ WF_vars(ResearchNext)

-----------------------------------------------------------------------------
(* A lone BaseAgent.run_parallel call, over any list of distinct providers  *)

Requests ==
    {ps \in UNION {[1..n -> Provider] : n \in 0..3} :
        \A i, j \in DOMAIN ps : ps[i] = ps[j] => i = j}

FanInit ==
    /\ pc = "start"
    /\ save_artifacts = FALSE
    /\ providers \in Requests
    /\ calls = [ph \in Phase |-> NotLaunched]
    /\ phase_results = [ph \in Phase |-> EmptyPhase]
    /\ editor_input = <<>>
    /\ judge_input = <<>>
    /\ result = <<>>
    /\ exception = ""
    /\ artifacts = <<>>
    /\ judge_results = <<>>
    /\ consensus = <<>>
    /\ NoCall
    /\ mapping = <<>>
    /\ text = <<>>
    /\ obfuscated = <<>>
    /\ revealed = <<>>
    /\ NoRest

\* agent.run_parallel(inputs, providers) up to its await of gather, for the
\* agent of phase ph.
FanCall ==
    \E ph \in Phase :
        /\ pc = "start"
        /\ pc' = ph
        /\ calls' = [calls EXCEPT ![ph] = Launch(providers)]
        /\ UNCHANGED <<save_artifacts, providers, phase_results, editor_input,
                       judge_input, result, exception, artifacts, judge_results,
                       consensus>>
        /\ UNCHANGED <<callvars, obfvars, restvars>>

FanSettles ==
    \E ph \in Phase, p \in Provider :
        \E out \in Outcomes(ph, p, FanRankings, ExceptionClasses, Messages) :
            RunOneSettle(ph, p, out)

\* gather resolves and run_parallel returns its ParallelRunResult.
FanReturn ==
    \E ph \in Phase :
        /\ pc = ph
        /\ Gathered(calls[ph], providers) \/ GatherRaises(calls[ph], providers)
        /\ IF GatherRaises(calls[ph], providers)
           THEN /\ pc' = "raised"
                /\ exception' = "propagated"
                /\ UNCHANGED result
           ELSE /\ pc' = "returned"
                /\ result' = <<ParallelRunResult(calls[ph], providers)>>
                /\ UNCHANGED exception
        /\ UNCHANGED <<save_artifacts, providers, calls, phase_results,
                       editor_input, judge_input, artifacts, judge_results,
                       consensus>>
        /\ UNCHANGED <<callvars, obfvars, restvars>>

FanNext == FanCall \/ FanSettles \/ FanReturn

SpecFan == FanInit /\ [][FanNext]_vars

-----------------------------------------------------------------------------
(* A lone _calculate_consensus call, over every dict of judge results       *)

\* The dicts run_parallel can hand over: keys in the order of the providers
\* list, each judge with any rankings.
JudgeDicts ==
    {LET ks == SelectSeq(DefaultProviders, LAMBDA p : p \in DOMAIN f)
     IN  [i \in DOMAIN ks |-> <<ks[i], JudgeResult(ks[i], f[ks[i]])>>] :
        f \in UNION {[S -> Rankings] : S \in SUBSET Provider}}

ConsensusInit ==
    /\ pc = "start"
    /\ save_artifacts = FALSE
    /\ providers = DefaultProviders
    /\ calls = [ph \in Phase |-> NotLaunched]
    /\ phase_results = [ph \in Phase |-> EmptyPhase]
    /\ editor_input = <<>>
    /\ judge_input = <<>>
    /\ result = <<>>
    /\ exception = ""
    /\ artifacts = <<>>
    /\ judge_results \in JudgeDicts
    /\ consensus = <<>>
    /\ NoCall
    /\ mapping = <<>>
    /\ text = <<>>
    /\ obfuscated = <<>>
    /\ revealed = <<>>
    /\ NoRest

CalculateConsensus ==
    /\ pc = "start"
    /\ pc' = "returned"
    /\ consensus' = <<_calculate_consensus(judge_results)>>
    /\ UNCHANGED <<save_artifacts, providers, calls, phase_results, editor_input,
                   judge_input, result, exception, artifacts, judge_results>>
    /\ UNCHANGED <<callvars, obfvars, restvars>>

ConsensusNext == CalculateConsensus

SpecConsensus == ConsensusInit /\ [][ConsensusNext]_vars

-----------------------------------------------------------------------------
(* What the provider calls did, read off calls                              *)

NoneLaunched(ph) == \A p \in Provider : calls[ph][p].st = "idle"

Started(ph) == \E p \in Provider : calls[ph][p].st # "idle"

InFlight(ph) == \E p \in Provider : calls[ph][p].st = "running"

AllSettled(ph) == \A p \in Range(providers) : calls[ph][p].st = "settled"

\* The providers whose call of phase ph returned a value / raised, in the
\* order of the providers list.
OkList(ph) ==
    SelectSeq(providers,
              LAMBDA p : calls[ph][p].st = "settled" /\ calls[ph][p].out.ok)

FailList(ph) ==
    SelectSeq(providers,
              LAMBDA p : calls[ph][p].st = "settled" /\ ~calls[ph][p].out.ok)

ReturnedValues(ph) ==
    [i \in DOMAIN OkList(ph) |-> calls[ph][OkList(ph)[i]].out.value]

ReturnedDict(ph) ==
    [i \in DOMAIN OkList(ph) |-> <<OkList(ph)[i], ReturnedValues(ph)[i]>>]

ZeroSuccesses(ph) == Started(ph) /\ AllSettled(ph) /\ OkList(ph) = <<>>

\* The error-type tag the claim expects for an exception class.
ExpectedTag(cls) == IF cls = "ValueError" THEN "ValidationError" ELSE cls

\* failed holds, for exactly the providers that raised in phase ph, a record
\* with the provider, the tag and the message of what was raised.
FailuresRecorded(ph, failed) ==
    /\ KeyList(failed) = FailList(ph)
    /\ \A i \in DOMAIN failed :
          LET p == failed[i][1]
              e == failed[i][2]
          IN  /\ e.provider = p
              /\ e.error_type = ExpectedTag(calls[ph][p].out.cls)
              /\ e.message = calls[ph][p].out.msg

-----------------------------------------------------------------------------
(* C1..C10                                                                  *)

\* C1: no exception escapes WritingPipeline.run, whatever the providers do
\* and with artifact saving on or off: run ends by returning a PipelineResult
\* whose three phase results give their success counts.
C1_RunNeverRaises ==
    /\ pc # "raised"
    /\ exception = ""
    /\ pc = "done" =>
          /\ Len(result) = 1
          /\ \A ph \in {"drafting_phase", "editing_phase", "judging_phase"} :
                success_count(result[1][ph]) \in 0..3

\* C2: no editor call starts before every drafter call has settled, no judge
\* call before every editor call has settled, and calls of two phases are
\* never in flight together.
C2_PhasesNeverOverlap ==
    /\ Started("editing") => AllSettled("drafting")
    /\ Started("judging") => AllSettled("editing")
    /\ \A a, b \in Phase : a # b => ~(InFlight(a) /\ InFlight(b))

C2_Witness ==
    /\ InFlight("judging")
    /\ \E p \in Provider : calls["judging"][p].st = "settled"
    /\ FailList("drafting") # <<>>

\* C3: run_parallel over the requested providers returns two mappings whose
\* key sets are disjoint and together are exactly the requested providers.
C3_Partition ==
    pc = "returned" =>
        LET successful == result[1].successful
            failed     == result[1].failed
        IN  /\ Keys(successful) \cap Keys(failed) = {}
            /\ Keys(successful) \cup Keys(failed) = Range(providers)
            /\ Cardinality(Keys(successful)) = Len(successful)
            /\ Cardinality(Keys(failed)) = Len(failed)

C3_Witness ==
    /\ pc = "returned"
    /\ Len(providers) = 3
    /\ Len(result[1].successful) = 1
    /\ Len(result[1].failed) = 2

\* C4: run_parallel raises nothing; an exception of any class raised in one
\* provider's call becomes that provider's failed entry with its provider,
\* error-type tag and message, and every sibling's entry is what the
\* sibling's own call returned or raised.
C4_ErrorsBecomeRecords ==
    /\ pc # "raised"
    /\ pc = "returned" =>
          \A ph \in Phase :
              Started(ph) =>
                  /\ AllSettled(ph)
                  /\ result[1].successful = ReturnedDict(ph)
                  /\ FailuresRecorded(ph, result[1].failed)

C4_Witness ==
    /\ pc = "returned"
    /\ \E ph \in Phase :
          /\ calls[ph]["claude"].out.cls = "TimeoutError"
          /\ calls[ph]["gemini"].out.cls = "ValueError"
          /\ calls[ph]["chatgpt"].st = "settled"
          /\ calls[ph]["chatgpt"].out.ok
          /\ Has(result[1].successful, "chatgpt")

C6_ZeroJudgesCompletes ==
    (ZeroSuccesses("judging") /\ pc # "judging") =>
        /\ pc = "done"
        /\ result[1].consensus_ranking = <<>>
        /\ result[1].draft_results = ReturnedDict("drafting")
        /\ result[1].edit_results = ReturnedDict("editing")

\* The judges a lone _calculate_consensus call is given, in dict order.
Judges == ValueList(judge_results)

\* A provider's total by the rule itself: 3 per first place, 2 per second,
\* 1 per third, over all judges.
Points(p) ==
      3 * Cardinality({i \in DOMAIN Judges : Judges[i].rankings[1] = p})
    + 2 * Cardinality({i \in DOMAIN Judges : Judges[i].rankings[2] = p})
    + 1 * Cardinality({i \in DOMAIN Judges : Judges[i].rankings[3] = p})

\* The k-th += of the accumulation: judge by judge, first place first.
Touched(k) == Judges[((k - 1) \div 3) + 1].rankings[((k - 1) % 3) + 1]

FirstTouch(p) ==
    CHOOSE k \in 1..(3 * Len(Judges)) :
        /\ Touched(k) = p
        /\ \A j \in 1..(k - 1) : Touched(j) # p

Named(p) == \E k \in 1..(3 * Len(Judges)) : Touched(k) = p

\* Judges claude, gemini, chatgpt ranking (P1,P2,P3), (P1,P3,P2), (P2,P1,P3)
\* with P1 = claude, P2 = gemini, P3 = chatgpt.
ThreeJudgeExample ==
    << <<"claude",  JudgeResult("claude",  <<"claude", "gemini", "chatgpt">>)>>,
       <<"gemini",  JudgeResult("gemini",  <<"claude", "chatgpt", "gemini">>)>>,
       <<"chatgpt", JudgeResult("chatgpt", <<"gemini", "claude", "chatgpt">>)>> >>

\* Judges claude and gemini ranking (A,B,C), (B,A,C) with A = claude,
\* B = gemini, C = chatgpt.
TieExample ==
    << <<"claude", JudgeResult("claude", <<"claude", "gemini", "chatgpt">>)>>,
       <<"gemini", JudgeResult("gemini", <<"gemini", "claude", "chatgpt">>)>> >>

\* C7: the consensus ranking is in non-increasing order of total points
\* (3, 2, 1 per first, second, third place); rankings (P1,P2,P3), (P1,P3,P2),
\* (P2,P1,P3) give 8, 6, 4 and the order P1, P2, P3.
C7_ConsensusByPoints ==
    pc = "returned" =>
        LET c == consensus[1]
        IN  /\ \A i, j \in DOMAIN c : i < j => Points(c[i]) >= Points(c[j])
            /\ judge_results = ThreeJudgeExample =>
                  /\ c = <<"claude", "gemini", "chatgpt">>
                  /\ Points("claude") = 8
                  /\ Points("gemini") = 6
                  /\ Points("chatgpt") = 4

C7_Witness ==
    /\ pc = "returned"
    /\ judge_results = ThreeJudgeExample
    /\ consensus[1] = <<"claude", "gemini", "chatgpt">>

\* C8: of two providers with equal totals, the one that received points
\* first in the accumulation is ranked ahead; rankings (A,B,C), (B,A,C) give
\* A = 5, B = 5, C = 2 and A first.
C8_TieBreakFirstSeen ==
    pc = "returned" =>
        LET c == consensus[1]
        IN  /\ \A i, j \in DOMAIN c :
                  ( /\ Named(c[i]) /\ Named(c[j])
                    /\ Points(c[i]) = Points(c[j])
                    /\ FirstTouch(c[i]) < FirstTouch(c[j]) ) => i < j
            /\ judge_results = TieExample =>
                  /\ Points("claude") = 5
                  /\ Points("gemini") = 5
                  /\ Points("chatgpt") = 2
                  /\ c[1] = "claude"

C8_Witness ==
    /\ pc = "returned"
    /\ judge_results = TieExample
    /\ consensus[1] = <<"claude", "gemini", "chatgpt">>

\* The run reached the aggregation step and returned.
Aggregated == pc = "done" /\ Started("judging")

\* The ranked providers that have an edit, best first.
RankedWithEdit(r) ==
    SelectSeq(r.consensus_ranking, LAMBDA p : Has(r.edit_results, p))

\* C9 as stated: the recommended edit is that of the highest-ranked provider
\* with an edit; failing that, some available edit; and it is none only when
\* no edit is available.
C9_RecommendedNoneOnlyWithoutEdits ==
    Aggregated =>
        LET r == result[1]
        IN  /\ RankedWithEdit(r) # <<>> =>
                  r.recommended_edit = Get(r.edit_results, RankedWithEdit(r)[1])
            /\ (RankedWithEdit(r) = <<>> /\ r.edit_results # <<>>) =>
                  r.recommended_edit \in Range(ValueList(r.edit_results))
            /\ r.recommended_edit = None => r.edit_results = <<>>

\* C9 amended: the recommended edit is that of the highest-ranked provider
\* with an edit; failing that, when the ranking is not empty, some available
\* edit; it is none exactly when no edit is available or the consensus
\* ranking is empty (no judge succeeded).
C9_RecommendedEdit ==
    Aggregated =>
        LET r == result[1]
        IN  /\ RankedWithEdit(r) # <<>> =>
                  r.recommended_edit = Get(r.edit_results, RankedWithEdit(r)[1])
            /\ ( /\ r.consensus_ranking # <<>>
                 /\ RankedWithEdit(r) = <<>>
                 /\ r.edit_results # <<>> ) =>
                  r.recommended_edit \in Range(ValueList(r.edit_results))
            /\ r.recommended_edit = None <=>
                  (r.edit_results = <<>> \/ r.consensus_ranking = <<>>)

\* The fallback: judges ranked only providers that have no edit.
C9_Witness ==
    /\ Aggregated
    /\ result[1].consensus_ranking # <<>>
    /\ RankedWithEdit(result[1]) = <<>>
    /\ result[1].recommended_edit # None

\* input is list (of 1 to 3 entries) followed by copies of its first entry,
\* three entries in all.
Padded(list, input) ==
    /\ Len(list) \in 1..3
    /\ Len(input) = 3
    /\ \A i \in 1..3 : input[i] = IF i <= Len(list) THEN list[i] ELSE list[1]

-----------------------------------------------------------------------------
(* The structured call (BaseAgent.run)                                      *)

\* The attempts tenacity makes at most: one even when max_retries is 0.
AttemptBudget == IF max_retries < 1 THEN 1 ELSE max_retries

\* The exception classes the retry decorator names.
RetriedClasses ==
    {"AuthenticationError", "RateLimitError", "APIError", "ValueError",
     "TimeoutError"}

\* The texts the editor's parser accepts.
Accepted == {"json", "fenced_json"}

\* C11 as stated: a call without a cache hit sends at most max_retries
\* requests, and none after a response that parsed and validated.
C11_RequestsWithinMaxRetries ==
    /\ requests <= max_retries
    /\ validated => pc = "returned"

\* C11: a call without a cache hit sends at most max(1, max_retries) requests
\* (one request is sent even when max_retries is 0), never more requests than
\* attempts, and none after a response that parsed and validated.
C11_RequestsWithinBudget ==
    /\ requests <= attempt_number
    /\ attempt_number <= AttemptBudget
    /\ validated => pc = "returned"

C11_Witness ==
    /\ max_retries = 3
    /\ requests = 3
    /\ validated
    /\ pc = "returned"

C13_AuthenticationNotRetried ==
    /\ pc = "raised" /\ exception = "AuthenticationError" => attempt_number = 1
    /\ pc = "sleeping" => outcome # "AuthenticationError"

\* C14: a call that finds a text under its key in the cache sends no request
\* and makes no attempt; it returns the validated value when the parser
\* accepts the text and raises the parser's ValueError when it does not.
C14_CacheHitIsParsed ==
    [][(pc \in {"start", "returned", "raised"}
            /\ cache_enabled /\ cache[provider'] # Absent)
        => /\ requests' = 0
           /\ attempt_number' = 0
           /\ cache' = cache
           /\ IF cache[provider'] \in Accepted
              THEN /\ pc' = "returned"
                   /\ result' = <<EditResult(provider')>>
                   /\ exception' = ""
              ELSE /\ pc' = "raised"
                   /\ result' = <<>>
                   /\ exception' = "ValueError"]_vars

C14_Witness ==
    /\ pc = "returned"
    /\ attempt_number = 0
    /\ requests = 0
    /\ cache_enabled
    /\ cache[provider] = "fenced_json"
    /\ result = <<EditResult(provider)>>

\* C15: a step changes the cache only under the key of the call in progress,
\* only when a response has just parsed and validated, and only to a text the
\* parser accepts.
C15_CacheWritesAreValid ==
    [][\A k \in Provider :
          cache'[k] # cache[k] =>
              /\ k = provider
              /\ cache'[k] \in Accepted
              /\ pc = "awaiting"
              /\ pc' = "returned"
              /\ validated']_vars

C15_Witness ==
    /\ cache_enabled
    /\ validated
    /\ attempt_number = 2
    /\ outcome = "ValueError"
    /\ cache[provider] = "json"

-----------------------------------------------------------------------------
(* Provider mappings and the text round trip                                *)

Assigned(m) == {m.aleph, m.bet, m.gimel}

\* No provider and no alias unmapped or double-mapped, in both directions.
Bijective(m) ==
    /\ Assigned(m) = Provider
    /\ \A a \in Range(ALIASES) : get_alias(m, m[a]) = a
    /\ \A p \in Provider :
          /\ get_alias(m, p) \in Range(ALIASES)
          /\ m[get_alias(m, p)] = p

\* C16: a mapping made by create_random assigns the three providers to the
\* three aliases with no duplicate, get_alias(get_provider(a)) = a for every
\* alias a, and its lookups raise nothing and agree with its fields.
C16_RandomMappingIsPermutation ==
    pc = "random" =>
        /\ Assigned(mapping) = Provider
        /\ Cardinality(Assigned(mapping)) = 3
        /\ \A a \in Range(ALIASES) :
              get_alias(mapping, get_provider(mapping, a)) = a
        /\ exception = ""
        /\ result # <<>> =>
              \/ result[1] \in Provider /\ mapping[result[2]] = result[1]
              \/ result[1] \in Range(ALIASES) /\ mapping[result[1]] = result[2]

C16_Witness ==
    /\ pc = "random"
    /\ mapping.aleph = "chatgpt"
    /\ result = <<"chatgpt", "aleph">>

\* C17: every mapping that exists, however it was built, is a bijection, and
\* get_alias raises for no provider.
C17_EveryMappingIsBijection ==
    mapping # <<>> => Bijective(mapping) /\ exception # "KeyError"

HasAliasName(t) ==
    \E i \in DOMAIN t : t[i][1] \in Range(ALIASES) /\ t[i][2] \in Styles

HasProviderName(t) ==
    \E i \in DOMAIN t : t[i][1] \in Provider /\ t[i][2] \in Styles

\* C18 as stated: for a bijective mapping and a text of provider names in the
\* three spellings and words holding no provider name, revealing the
\* obfuscated text gives the text back.
C18_RoundTripOfCleanText ==
    pc = "revealed" /\ Bijective(mapping) => revealed[1] = text

\* C18: for a bijective mapping and a text of provider names in the three
\* spellings and other words, in which no alias name occurs in any of the
\* three spellings (not inside a word either), revealing the obfuscated text
\* gives the text back, and the obfuscated text holds no provider name.
C18_RoundTripWithoutAliasNames ==
    /\ pc \in {"obfuscated", "revealed"} /\ Bijective(mapping)
            /\ ~HasAliasName(text)
        => ~HasProviderName(obfuscated[1])
    /\ pc = "revealed" /\ Bijective(mapping) /\ ~HasAliasName(text)
        => revealed[1] = text

C18_Witness ==
    /\ pc = "revealed"
    /\ Bijective(mapping)
    /\ mapping.bet = "claude"
    /\ text = <<<<"claude", "lower">>, <<"gemini", "title">>,
                 <<"chatgpt", "upper">>>>
    /\ obfuscated[1] # text
    /\ revealed[1] = text

-----------------------------------------------------------------------------
(* Termination and the phase outputs of the pipeline                        *)

\* The places run goes through, in order; it leaves by returning ("done") or
\* by an exception ("raised").
Rank(at) ==
    CASE at = "start"    -> 0
      [] at = "drafting" -> 1
      [] at = "editing"  -> 2
      [] at = "judging"  -> 3
      [] OTHER           -> 4

\* C19: with every provider call settling and run resumed whenever a gather
\* has resolved, run returns in the end; and no step takes run back to an
\* earlier phase or leaves it in place while changing where it stands.
C19_RunEventuallyReturns ==
    /\ <>(pc = "done")
    /\ [][Rank(pc') >= Rank(pc) /\ (pc' # pc => Rank(pc') > Rank(pc))]_vars

\* successful and failed of a phase output share no provider and together
\* hold every provider.
Partitions(phase) ==
    /\ Keys(phase.successful) \cap Keys(phase.failed) = {}
    /\ Keys(phase.successful) \cup Keys(phase.failed) = Provider

\* C20 as stated: in every result run returns, each of drafting_phase,
\* editing_phase and judging_phase has disjoint successful and failed sets
\* whose union is the full provider set.
C20_EveryPhasePartitions ==
    result # <<>> =>
        /\ Partitions(result[1].drafting_phase)
        /\ Partitions(result[1].editing_phase)
        /\ Partitions(result[1].judging_phase)

\* C20: in every result run returns, the output of each phase that ran has
\* disjoint successful and failed sets whose union is the full provider set,
\* and the output of a phase that did not run is empty on both sides;
\* drafting always ran, editing ran exactly when a drafter succeeded, judging
\* exactly when an editor succeeded.
C20_RanPhasesPartition ==
    result # <<>> =>
        LET r == result[1]
        IN  /\ Partitions(r.drafting_phase)
            /\ IF success_count(r.drafting_phase) >= 1
               THEN Partitions(r.editing_phase)
               ELSE r.editing_phase = EmptyPhase
            /\ IF success_count(r.editing_phase) >= 1
               THEN Partitions(r.judging_phase)
               ELSE r.judging_phase = EmptyPhase
            /\ r.drafting_phase = phase_results["drafting"]
            /\ r.editing_phase = phase_results["editing"]
            /\ r.judging_phase = phase_results["judging"]

C20_Witness ==
    /\ result # <<>>
    /\ Len(result[1].drafting_phase.successful) = 2
    /\ Len(result[1].drafting_phase.failed) = 1
    /\ Len(result[1].editing_phase.failed) = 3
    /\ result[1].judging_phase = EmptyPhase

-----------------------------------------------------------------------------
(* Completion order                                                         *)

\* The consensus computed from the judges that returned, taken in the order
\* of the providers list, and the edit recommended from it.
ExpectedRanking == _calculate_consensus(ReturnedDict("judging"))

ExpectedEdit == _get_recommended_edit(ExpectedRanking, ReturnedDict("editing"))

\* C21: for fixed outcomes of the provider calls, the consensus ranking and
\* the recommended edit that run returns after aggregation are the ones
\* computed from those outcomes in the order of the providers list, whatever
\* the order in which the calls of each phase completed.
C21_ResultIgnoresCompletionOrder ==
    Aggregated =>
        /\ result[1].consensus_ranking = ExpectedRanking
        /\ result[1].recommended_edit = ExpectedEdit

\* A run whose two successful judges finished in the reverse of the providers
\* order and tie all three providers.
C21_Witness ==
    /\ Aggregated
    /\ completed["judging"] = <<"chatgpt", "gemini", "claude">>
    /\ completed["editing"] = <<"gemini", "chatgpt", "claude">>
    /\ ~calls["judging"]["claude"].out.ok
    /\ calls["judging"]["gemini"].out.value.rankings = <<"claude", "gemini", "chatgpt">>
    /\ calls["judging"]["chatgpt"].out.value.rankings = <<"chatgpt", "gemini", "claude">>
    /\ result[1].consensus_ranking = <<"claude", "gemini", "chatgpt">>
    /\ result[1].recommended_edit = EditResult("claude")

-----------------------------------------------------------------------------
(* Members of the consensus ranking                                         *)

NamedProviders == {p \in Provider : Named(p)}

Occurrences(list, p) == Cardinality({i \in DOMAIN list : list[i] = p})

\* C22: the consensus ranking holds exactly once each provider that some
\* successful judge named in some rank position and no other provider, so its
\* length is the number of distinct providers named, which can be smaller
\* than the number of configured providers.
C22_RankingIsTheNamedProviders ==
    pc = "returned" =>
        LET c == consensus[1]
        IN  /\ \A p \in Provider :
                  Occurrences(c, p) = IF Named(p) THEN 1 ELSE 0
            /\ Range(c) = NamedProviders
            /\ Len(c) = Cardinality(NamedProviders)
            /\ Len(c) <= Len(DefaultProviders)

\* Three successful judges that all name claude and gemini only, one of them
\* naming claude twice: the ranking has two entries for three providers.
C22_Witness ==
    /\ pc = "returned"
    /\ Len(judge_results) = 3
    /\ NamedProviders = {"claude", "gemini"}
    /\ Judges[1].rankings = <<"claude", "gemini", "claude">>
    /\ Len(consensus[1]) = 2

-----------------------------------------------------------------------------
(* Raw responses of failed providers                                        *)

\* The call of p ended in a parse or validation failure.
EndedInValueError(p) ==
    tasks[p].st = "settled" /\ tasks[p].error = "ValidationError"

-----------------------------------------------------------------------------
(* The manifest                                                             *)

\* run is over: it has returned or an exception has left it.
RunOver == pc \in {"done", "raised"}

\* C24: with artifact saving enabled, every run that is over (after zero
\* drafts, after zero edits, after aggregation) has finalized its manifest
\* exactly once, and finalize is the last artifact call of the run.
C24_ManifestFinalizedOnceAndLast ==
    (save_artifacts /\ RunOver) =>
        /\ Occurrences(artifacts, "finalize") = 1
        /\ artifacts[Len(artifacts)] = "finalize"

\* What holds of the runs that return: finalize once, and last.
ReturnedRunsFinalizeOnceAndLast ==
    (save_artifacts /\ pc = "done") =>
        /\ Occurrences(artifacts, "finalize") = 1
        /\ artifacts[Len(artifacts)] = "finalize"

\* No run with artifact saving returns after zero drafts or zero edits.
SavingRunsReturnOnlyAfterAllSucceed ==
    (save_artifacts /\ pc = "done") =>
        \A ph \in Phase : Len(OkList(ph)) = 3

-----------------------------------------------------------------------------
(* Progress notifications                                                   *)

Delivered(ph, status) ==
    \E i \in DOMAIN notifications : notifications[i] = <<ph, status>>

\* The place of the first notification <<ph, status>>, 0 if there is none.
Place(ph, status) ==
    IF Delivered(ph, status)
    THEN CHOOSE i \in DOMAIN notifications :
             /\ notifications[i] = <<ph, status>>
             /\ \A j \in 1..(i - 1) : notifications[j] # <<ph, status>>
    ELSE 0

NextPhase(ph) == IF ph = "drafting" THEN "editing" ELSE "judging"

\* run has left phase ph: it awaits a later gather or is over.
Left(ph) == Started(ph) /\ pc # ph

\* C25: with a callback given, for each phase the run enters, "starting" is
\* delivered no later than the launch of the phase's calls, "completed" only
\* once all its calls have settled, at the latest when run leaves the phase,
\* after the phase's "starting" and before the next phase's "starting"; and
\* a run that has gone through all three phases has delivered at least 6
\* notifications.
C25_NotificationsFramePhases ==
    on_progress =>
        /\ \A ph \in Phase :
              /\ Started(ph) => Delivered(ph, "starting")
              /\ Delivered(ph, "starting") => Started(ph)
              /\ Delivered(ph, "completed") =>
                    /\ AllSettled(ph)
                    /\ 0 < Place(ph, "starting")
                    /\ Place(ph, "starting") < Place(ph, "completed")
              /\ Left(ph) => Delivered(ph, "completed")
              /\ InFlight(ph) => ~Delivered(ph, "completed")
        /\ \A ph \in {"drafting", "editing"} :
              Delivered(NextPhase(ph), "starting") =>
                  /\ Delivered(ph, "completed")
                  /\ Place(ph, "completed") < Place(NextPhase(ph), "starting")
        /\ Left("judging") => Len(notifications) >= 6

\* A run through all three phases, without artifacts, sources or cite-assist:
\* exactly the six notifications, in order.
C25_Witness ==
    /\ on_progress
    /\ pc = "done"
    /\ Left("judging")
    /\ notifications = << <<"drafting", "starting">>, <<"drafting", "completed">>,
                          <<"editing", "starting">>,  <<"editing", "completed">>,
                          <<"judging", "starting">>,  <<"judging", "completed">> >>

-----------------------------------------------------------------------------
(* Prompt labels                                                            *)

\* Every slot is labelled with the provider that produced its content.
LabelledByProducer(slots) ==
    \A i \in DOMAIN slots : slots[i].label = slots[i].content.provider

\* C27: in every run, also with fewer than three successful drafts or edits,
\* each draft slot of the editor prompt and each edit slot of the judge
\* prompt is labelled with the provider that produced the slot's content, so
\* that a judge's draft_source p refers to the edit of provider p.
C27_SlotsLabelledByProducer ==
    /\ LabelledByProducer(EditorAgent_build_prompt(editor_input))
    /\ LabelledByProducer(JudgeAgent_build_prompt(judge_input))

\* What holds: the labels are right in the phases that follow a phase in
\* which all three providers succeeded.
LabelsRightAfterFullPhases ==
    /\ Len(OkList("drafting")) = 3 =>
          LabelledByProducer(EditorAgent_build_prompt(editor_input))
    /\ Len(OkList("editing")) = 3 =>
          LabelledByProducer(JudgeAgent_build_prompt(judge_input))

\* The recommended edit is then another provider's than the one the judges
\* were shown under the winner's name: only gemini and chatgpt have edits,
\* the slot labelled claude holds gemini's edit, and a winner "claude" has
\* no edit of its own.
WinnerNeverMislabelled ==
    ~ ( /\ Aggregated
        /\ OkList("editing") = <<"gemini", "chatgpt">>
        /\ JudgeAgent_build_prompt(judge_input)[1] =
               [label |-> "claude", content |-> EditResult("gemini")]
        /\ result[1].consensus_ranking[1] = "claude"
        /\ result[1].recommended_edit = EditResult("gemini") )

-----------------------------------------------------------------------------
(* final/recommended.md                                                     *)

\* C28: whenever final/recommended.md has been written for a run, the alias
\* it records as the Winner is the alias, under the run's mapping, of the
\* provider whose edit is the recommended edit stored in the file.
C28_WinnerIsTheRecommendedEditor ==
    recommended_md # <<>> =>
        recommended_md[1].winner[1] =
            get_alias(mapping, recommended_md[1].edit.provider)

\* A run that wrote the file with gemini's edit, gemini being "gimel".
C28_Witness ==
    /\ pc = "done"
    /\ recommended_md # <<>>
    /\ recommended_md[1].edit = EditResult("gemini")
    /\ recommended_md[1].winner = <<"gimel", "title">>
    /\ get_provider(mapping, "gimel") = "gemini"

\* With artifact saving, the runs that reach save_final are those in which
\* every provider call succeeded, so the first of the ranking has an edit.
FileWrittenOnlyAfterAllSucceed ==
    recommended_md # <<>> => \A ph \in Phase : Len(OkList(ph)) = 3

-----------------------------------------------------------------------------
(* Usable results                                                           *)

\* C29: in every PipelineResult that run returns, recommended_edit is
\* present exactly when has_usable_result is true, that is, exactly when
\* each of the drafting, editing and judging phases has a success.
C29_RecommendedIffUsable ==
    pc = "done" =>
        LET r == result[1]
        IN  /\ r.recommended_edit # None <=> has_usable_result(r)
            /\ has_usable_result(r) <=>
                  \A ph \in Phase : OkList(ph) # <<>>

\* One success per phase, the judge ranking only providers without an edit:
\* the result is usable and the recommended edit is the fallback.
C29_Witness ==
    /\ pc = "done"
    /\ OkList("drafting") = <<"claude">>
    /\ OkList("editing") = <<"gemini">>
    /\ OkList("judging") = <<"chatgpt">>
    /\ result[1].consensus_ranking = <<"claude">>
    /\ has_usable_result(result[1])
    /\ result[1].recommended_edit = EditResult("gemini")

\* Edits without a successful judge: not usable, nothing recommended.
C29_WitnessNoJudge ==
    /\ pc = "done"
    /\ OkList("editing") # <<>>
    /\ OkList("judging") = <<>>
    /\ ~has_usable_result(result[1])
    /\ result[1].recommended_edit = None

-----------------------------------------------------------------------------
(* The research loop                                                        *)

\* The findings of the context that the loop of p appended.
FoundBy(p) == SelectSeq(inputs.research_context, LAMBDA f : f[1] = p)

\* The loop of p is not running: it was never entered or it is over.
LoopOver(p) == research[p].st \in {"drafting", "failed"}

LoopsWithinBudget ==
    \A p \in Provider :
        /\ research[p].model_calls <= inputs.max_research_steps
        /\ research[p].searches <= research[p].model_calls
        /\ Len(FoundBy(p)) = research[p].searches

\* A step in which the loop of p receives FINAL ANSWER or an exception ends
\* the loop and neither searches nor touches the context; a loop that is
\* over makes no model call; the context grows by one entry per search.
LoopStepsAsStated ==
    \A p \in Provider :
        /\ (research[p].stop = "" /\ research'[p].stop \in {"final", "exception"}) =>
              /\ LoopOver(p)'
              /\ research'[p].searches = research[p].searches
              /\ inputs' = inputs
        /\ LoopOver(p) => research'[p].model_calls = research[p].model_calls
        /\ Len(FoundBy(p)') - Len(FoundBy(p)) =
              research'[p].searches - research[p].searches

AllLoopsOver == pc = "gather" /\ \A p \in Range(providers) : LoopOver(p)

\* C26: every research loop ends, having made at most max_research_steps
\* model calls; it ends at the first response with FINAL ANSWER, for which
\* no search is executed, or at the first exception; and research_context
\* grows by exactly one entry per search executed.
C26_ResearchLoopTerminates ==
    /\ []LoopsWithinBudget
    /\ [][LoopStepsAsStated]_vars
    /\ <>AllLoopsOver

\* The loop of claude searched once and then stopped at FINAL ANSWER with a
\* step to spare, as in test_research_loop_execution.
C26_Witness ==
    /\ inputs.max_research_steps = MaxResearchSteps
    /\ research["claude"].stop = "final"
    /\ research["claude"].model_calls = 2
    /\ research["claude"].searches = 1
    /\ FoundBy("claude") = <<Finding("claude", 1)>>
    /\ research["gemini"].stop = "exhausted"
    /\ research["gemini"].searches = MaxResearchSteps

\* The findings a prompt shows that the caller did not put there.
Gathered_in(prompt) == SelectSeq(prompt, LAMBDA f : f # GivenFinding)

\* C30: in a parallel drafting run with research, the findings in the
\* drafting prompt of p are exactly those its own research loop gathered,
\* never one appended by the loop of a sibling, however the three tasks that
\* share the DrafterInput interleave.
C30_PromptShowsOwnFindingsOnly ==
    \A p \in Provider :
        research[p].st = "drafting" =>
            Gathered_in(research[p].prompt) =
                [k \in 1..research[p].searches |-> Finding(p, k)]

\* What holds: a prompt shows every finding of its own loop, in order, and
\* besides them only findings that were in the shared context when it was
\* built.
PromptShowsOwnFindings ==
    \A p \in Provider :
        research[p].st = "drafting" =>
            /\ SelectSeq(research[p].prompt, LAMBDA f : f[1] = p) =
                   [k \in 1..research[p].searches |-> Finding(p, k)]
            /\ \A i \in DOMAIN research[p].prompt :
                   research[p].prompt[i] = inputs.research_context[i]

====
